---- MODULE Spec2Model ----
(***************************************************************************)
(* RendererContainer of src/lib/renderer.ts: the registry of renderers     *)
(* (addRenderer, getRenderer, setDefault) and the concurrent render pass   *)
(* (render), with the promises of the pass modelled step by step.          *)
(***************************************************************************)
EXTENDS Integers, Sequences, FiniteSets, TLC

VARIABLES
    renderers,        \* Map<string, Renderer>: entries [key, value] in insertion order
    defaultRenderer,  \* the Renderer instance used when none is enabled
    enabledNow,       \* the renderers whose isEnabled() answers true at present
    pc,               \* the render() call: "idle", "awaiting", "returned", "raised"
    tasks,            \* one entry per element of the local array `enabled` of render()
    logged,           \* the messages the current render() call gave to app.logger.error
    last              \* the call or step that produced the current state, and its outcome

vars == <<renderers, defaultRenderer, enabledNow, pc, tasks, logged, last>>

----------------------------------------------------------------------------
(* Renderer instances: the two built-in ones and the plugins' ones.  Two   *)
(* values are the same instance iff they are equal; `name` is the readonly *)
(* field of the interface, and several plugin instances carry the same     *)
(* name.                                                                   *)

MaxPlugins == 2

HtmlRenderer == [name |-> "html", instance |-> 0]

Serializer == [name |-> "json", instance |-> 0]

Renderer ==
    {HtmlRenderer, Serializer}
        \cup {[name |-> "markdown", instance |-> n] : n \in 1..MaxPlugins}

RendererName == {"html", "json", "markdown", "pdf"}

(* What Map.get answers for a missing key: no Renderer.                    *)
undefined == [name |-> "undefined", instance |-> -1]

project == "project"

(* The Error a renderer's render operation rejects with.  Its message is   *)
(* the renderer's own text, so the message names the renderer it is from.  *)
Error(gen) == [message |-> <<"failed", gen.name, gen.instance>>]

----------------------------------------------------------------------------
(* Map<string, Renderer>                                                   *)

MapHas(m, k) == \E i \in DOMAIN m : m[i].key = k

MapGet(m, k) ==
    IF MapHas(m, k)
    THEN m[CHOOSE i \in DOMAIN m : m[i].key = k].value
    ELSE undefined

MapSetFresh(m, k, v) == <<[key |-> k, value |-> v]>>

MapSet(m, k, v) ==
    IF MapHas(m, k)
    THEN [i \in DOMAIN m |-> IF m[i].key = k THEN [key |-> k, value |-> v] ELSE m[i]]
    ELSE Append(m, [key |-> k, value |-> v])

MapValues(m) == [i \in DOMAIN m |-> m[i].value]

----------------------------------------------------------------------------
(* addRenderer: assert.ok throws before the map is touched.                *)

addRendererOverwrite(m, renderer) ==
    IF MapHas(m, renderer.name)
    THEN [renderers |-> MapSet(m, renderer.name, renderer),
          outcome |-> [threw |-> "AssertionError"]]
    ELSE [renderers |-> MapSet(m, renderer.name, renderer), outcome |-> [returned |-> undefined]]

addRenderer(m, renderer) ==
    IF MapHas(m, renderer.name)
    THEN [renderers |-> m, outcome |-> [threw |-> "AssertionError"]]
    ELSE [renderers |-> MapSet(m, renderer.name, renderer), outcome |-> [returned |-> undefined]]

getRendererOrFirst(m, k) == IF MapHas(m, k) THEN MapGet(m, k) ELSE m[1].value

getRenderer(m, k) == MapGet(m, k)

(* setDefault: the assertion compares instances with ===.                  *)

setDefaultKeepsOld(m, d, renderer) ==
    IF MapGet(m, renderer.name) = renderer
    THEN [defaultRenderer |-> d, outcome |-> [returned |-> undefined]]
    ELSE [defaultRenderer |-> d, outcome |-> [threw |-> "AssertionError"]]

setDefaultByName(m, d, renderer) ==
    IF MapHas(m, renderer.name)
    THEN [defaultRenderer |-> renderer, outcome |-> [returned |-> undefined]]
    ELSE [defaultRenderer |-> d, outcome |-> [threw |-> "AssertionError"]]

setDefault(m, d, renderer) ==
    IF MapGet(m, renderer.name) = renderer
    THEN [defaultRenderer |-> renderer, outcome |-> [returned |-> undefined]]
    ELSE [defaultRenderer |-> d, outcome |-> [threw |-> "AssertionError"]]

(* The constructor.                                                        *)

constructor ==
    LET d == HtmlRenderer
        m1 == addRenderer(<<>>, d).renderers
        m2 == addRenderer(m1, Serializer).renderers
    IN  [defaultRenderer |-> d, renderers |-> m2]


----------------------------------------------------------------------------
(* render: the synchronous part up to the await.                           *)

isEnabledFilter(m, en) == SelectSeq(MapValues(m), LAMBDA r : r \in en)

pushNothing(enabled, d) == enabled

pushDefaultAlways(enabled, d) == Append(enabled, d)

(* If no renderers are explicitly enabled, just render the default output. *)
pushDefault(enabled, d) ==
    IF Len(enabled) = 0 THEN Append(enabled, d) ELSE enabled

mapRenderFirst(enabled) ==
    [i \in {1} |->
        [gen |-> enabled[i], inner |-> "pending", error |-> undefined,
         wrapped |-> "pending"]]

(* enabled.map(gen => gen.render(project).catch(...)): one promise pair    *)
(* per element: `inner` is gen.render(project), `wrapped` the promise      *)
(* returned by .catch, which is what Promise.all waits for.                *)
mapRender(enabled) ==
    [i \in DOMAIN enabled |->
        [gen |-> enabled[i], inner |-> "pending", error |-> undefined,
         wrapped |-> "pending"]]

loggerErrorTwice(log, error) == Append(Append(log, error.message), error.message)

(* this.app.logger.error(error.message): one message more for the logger.  *)
loggerError(log, error) == Append(log, error.message)

catchRethrow(error) == "rejected"

(* The catch handler calls logger.error and returns undefined, so the      *)
(* promise returned by .catch is fulfilled.                                *)
catchHandler(error) == "fulfilled"

(* Promise.all: rejected as soon as one input is rejected, fulfilled when  *)
(* every input is fulfilled.  The three variants before it are what it     *)
(* would be without the .catch, as a race for the first fulfilment, and    *)
(* as a wait for the renderers only.                                       *)
PromiseAllNoCatch(ts) ==
    IF \E i \in DOMAIN ts : ts[i].inner = "rejected" THEN "rejected"
    ELSE IF \A i \in DOMAIN ts : ts[i].wrapped = "fulfilled" THEN "fulfilled"
    ELSE "pending"

PromiseAny(ts) ==
    IF \E i \in DOMAIN ts : ts[i].wrapped = "fulfilled" THEN "fulfilled"
    ELSE IF \A i \in DOMAIN ts : ts[i].wrapped = "rejected" THEN "rejected"
    ELSE "pending"

PromiseAllInner(ts) ==
    IF \E i \in DOMAIN ts : ts[i].wrapped = "rejected" THEN "rejected"
    ELSE IF \A i \in DOMAIN ts : ts[i].inner # "pending" THEN "fulfilled"
    ELSE "pending"

PromiseAll(ts) ==
    IF \E i \in DOMAIN ts : ts[i].wrapped = "rejected" THEN "rejected"
    ELSE IF \A i \in DOMAIN ts : ts[i].wrapped = "fulfilled" THEN "fulfilled"
    ELSE "pending"

----------------------------------------------------------------------------
Init ==
    /\ renderers = constructor.renderers
    /\ defaultRenderer = constructor.defaultRenderer
    /\ enabledNow \in SUBSET Renderer
    /\ pc = "idle"
    /\ tasks = <<>>
    /\ logged = <<>>
    /\ last = [op |-> "constructor", arg |-> [app |-> "app"],
              outcome |-> [returned |-> undefined]]

AddRenderer ==
    \E renderer \in Renderer :
        LET res == addRenderer(renderers, renderer) IN
        /\ renderers' = res.renderers
        /\ last' = [op |-> "addRenderer", arg |-> [renderer |-> renderer],
                    outcome |-> res.outcome]
        /\ UNCHANGED <<defaultRenderer, enabledNow, pc, tasks, logged>>

GetRenderer ==
    \E k \in RendererName :
        /\ last' = [op |-> "getRenderer", arg |-> [name |-> k],
                    outcome |-> [returned |-> getRenderer(renderers, k)]]
        /\ UNCHANGED <<renderers, defaultRenderer, enabledNow, pc, tasks, logged>>

SetDefault ==
    \E renderer \in Renderer :
        LET res == setDefault(renderers, defaultRenderer, renderer) IN
        /\ defaultRenderer' = res.defaultRenderer
        /\ last' = [op |-> "setDefault", arg |-> [renderer |-> renderer],
                    outcome |-> res.outcome]
        /\ UNCHANGED <<renderers, enabledNow, pc, tasks, logged>>

(* The options a renderer's isEnabled() reads are set outside the container. *)
SetOption ==
    \E r \in Renderer :
        /\ enabledNow' = IF r \in enabledNow THEN enabledNow \ {r} ELSE enabledNow \cup {r}
        /\ last' = [op |-> "setOption", arg |-> [renderer |-> r],
                    outcome |-> [isEnabled |-> r \notin enabledNow]]
        /\ UNCHANGED <<renderers, defaultRenderer, pc, tasks, logged>>

(* render with the list of the first call kept for the later ones.        *)
RenderCached ==
    /\ pc # "awaiting"
    /\ LET enabled == pushDefault(isEnabledFilter(renderers, enabledNow), defaultRenderer)
       IN  tasks' = IF tasks = <<>>
                    THEN mapRender(enabled)
                    ELSE mapRender([i \in DOMAIN tasks |-> tasks[i].gen])
    /\ logged' = <<>>
    /\ pc' = "awaiting"
    /\ last' = [op |-> "render", arg |-> [project |-> project],
                outcome |-> [promise |-> "pending"],
                previous |-> [i \in DOMAIN tasks |-> tasks[i].gen]]
    /\ UNCHANGED <<renderers, defaultRenderer, enabledNow>>

(* render that also keeps the first renderer it launched as the default.   *)
RenderPromotes ==
    /\ pc # "awaiting"
    /\ LET enabled == pushDefault(isEnabledFilter(renderers, enabledNow), defaultRenderer)
       IN  /\ tasks' = mapRender(enabled)
           /\ defaultRenderer' = enabled[1]
    /\ logged' = <<>>
    /\ pc' = "awaiting"
    /\ last' = [op |-> "render", arg |-> [project |-> project],
                outcome |-> [promise |-> "pending"],
                previous |-> [i \in DOMAIN tasks |-> tasks[i].gen]]
    /\ UNCHANGED <<renderers, enabledNow>>

(* `previous` remembers what the call before this one launched.            *)
Render ==
    /\ pc # "awaiting"
    /\ LET enabled == pushDefault(isEnabledFilter(renderers, enabledNow), defaultRenderer)
       IN  tasks' = mapRender(enabled)
    /\ logged' = <<>>
    /\ pc' = "awaiting"
    /\ last' = [op |-> "render", arg |-> [project |-> project],
                outcome |-> [promise |-> "pending"],
                previous |-> [i \in DOMAIN tasks |-> tasks[i].gen]]
    /\ UNCHANGED <<renderers, defaultRenderer, enabledNow>>

(* gen.render(project) settles: it resolves, or rejects with an Error.     *)
RenderFulfil ==
    \E i \in DOMAIN tasks :
        /\ tasks[i].inner = "pending"
        /\ tasks' = [tasks EXCEPT ![i].inner = "fulfilled", ![i].wrapped = "fulfilled"]
        /\ last' = [op |-> "settle", arg |-> [renderer |-> tasks[i].gen],
                    outcome |-> [promise |-> "fulfilled"]]
        /\ UNCHANGED <<renderers, defaultRenderer, enabledNow, pc, logged>>

RenderReject ==
    \E i \in DOMAIN tasks :
        /\ tasks[i].inner = "pending"
        /\ tasks' = [tasks EXCEPT ![i].inner = "rejected", ![i].error = Error(tasks[i].gen)]
        /\ last' = [op |-> "settle", arg |-> [renderer |-> tasks[i].gen],
                    outcome |-> [promise |-> "rejected"]]
        /\ UNCHANGED <<renderers, defaultRenderer, enabledNow, pc, logged>>

(* The .catch callback of a rejected gen.render(project).                  *)
Catch ==
    \E i \in DOMAIN tasks :
        /\ tasks[i].inner = "rejected"
        /\ tasks[i].wrapped = "pending"
        /\ logged' = loggerError(logged, tasks[i].error)
        /\ tasks' = [tasks EXCEPT ![i].wrapped = catchHandler(tasks[i].error)]
        /\ last' = [op |-> "catch", arg |-> [renderer |-> tasks[i].gen],
                    outcome |-> [promise |-> catchHandler(tasks[i].error)]]
        /\ UNCHANGED <<renderers, defaultRenderer, enabledNow, pc>>

(* The await of render() resumes once Promise.all has settled.             *)
Await ==
    /\ pc = "awaiting"
    /\ PromiseAll(tasks) # "pending"
    /\ pc' = IF PromiseAll(tasks) = "fulfilled" THEN "returned" ELSE "raised"
    /\ last' = [op |-> "await", arg |-> [project |-> project],
                outcome |-> [promise |-> PromiseAll(tasks)]]
    /\ UNCHANGED <<renderers, defaultRenderer, enabledNow, tasks, logged>>

Next ==
    \/ AddRenderer
    \/ GetRenderer
    \/ SetDefault
    \/ SetOption
    \/ Render
    \/ RenderFulfil
    \/ RenderReject
    \/ Catch
    \/ Await

Spec == Init /\ [][Next]_vars

(* The job queue of the engine runs every reaction of a settled promise:   *)
(* a .catch callback whose promise has rejected and the continuation of an *)
(* await whose promise has settled are not postponed for ever.  Nothing    *)
(* makes a renderer's own promise settle.                                  *)
FairSpec == Spec /\ WF_vars(Catch) /\ WF_vars(Await)

----------------------------------------------------------------------------
(* Vocabulary of the properties.                                           *)

Registered(r) == \E i \in DOMAIN renderers : renderers[i].value = r

Invocations(ts, r) == Cardinality({i \in DOMAIN ts : ts[i].gen = r})

Launched(ts) == [i \in DOMAIN ts |-> ts[i].gen]

LogEntries(r) == {k \in DOMAIN logged : logged[k] = Error(r).message}

RenderCalled == pc # "awaiting" /\ pc' = "awaiting"

----------------------------------------------------------------------------
(* C1: addRenderer(r) with r.name already a key throws (the duplicate-name *)
(* assertion) and leaves renderers, hence the instance on file under       *)
(* r.name, and defaultRenderer as they were.                               *)
C1_DuplicateNameRejected ==
    [][\A r \in Renderer :
        (/\ last'.op = "addRenderer"
         /\ last'.arg = [renderer |-> r]
         /\ MapHas(renderers, r.name))
        => /\ last'.outcome = [threw |-> "AssertionError"]
           /\ renderers' = renderers
           /\ defaultRenderer' = defaultRenderer]_vars

C1_Witness ==
    /\ last.op = "addRenderer"
    /\ last.outcome = [threw |-> "AssertionError"]
    /\ MapGet(renderers, last.arg.renderer.name) # last.arg.renderer

(* C2: setDefault(r) with r not the instance on file under r.name (name    *)
(* absent, or another instance of that name registered) throws and leaves  *)
(* defaultRenderer and renderers as they were.                             *)
C2_UnregisteredDefaultRejected ==
    [][\A r \in Renderer :
        (/\ last'.op = "setDefault"
         /\ last'.arg = [renderer |-> r]
         /\ \A i \in DOMAIN renderers :
               ~(renderers[i].key = r.name /\ renderers[i].value = r))
        => /\ last'.outcome = [threw |-> "AssertionError"]
           /\ defaultRenderer' = defaultRenderer
           /\ renderers' = renderers]_vars

C2_Witness ==
    /\ last.op = "setDefault"
    /\ last.outcome = [threw |-> "AssertionError"]
    /\ MapHas(renderers, last.arg.renderer.name)
    /\ defaultRenderer # last.arg.renderer

(* C3 (I2): defaultRenderer is always the very instance stored in          *)
(* renderers under defaultRenderer.name.                                   *)
C3_DefaultIsRegisteredInstance ==
    \E i \in DOMAIN renderers :
        renderers[i].key = defaultRenderer.name /\ renderers[i].value = defaultRenderer

C3_Witness ==
    /\ last.op = "setDefault"
    /\ last.outcome = [returned |-> undefined]
    /\ defaultRenderer \notin {HtmlRenderer, Serializer}
    /\ \E r \in Renderer : r # defaultRenderer /\ r.name = defaultRenderer.name

(* C4: when render is called and no registered renderer is enabled, the    *)
(* render operation of the default renderer is invoked, once, and that of  *)
(* no other renderer; nothing more is invoked while the pass runs.         *)
C4_FallbackInvokesOnlyDefault ==
    [][/\ (RenderCalled /\ ~\E r \in enabledNow : Registered(r))
          => \A r \in Renderer :
                Invocations(tasks', r) = IF r = defaultRenderer THEN 1 ELSE 0
       /\ (pc = "awaiting" /\ pc' # "awaiting") => Launched(tasks') = Launched(tasks)
       /\ (pc = "awaiting" /\ pc' = "awaiting") => Launched(tasks') = Launched(tasks)]_vars

C4_Witness ==
    /\ pc = "returned"
    /\ enabledNow = {}
    /\ Launched(tasks) = <<HtmlRenderer>>
    /\ defaultRenderer = HtmlRenderer

(* C5: when render is called and some registered renderer is enabled, the  *)
(* renderers invoked are exactly the registered renderers that are         *)
(* enabled; the default renderer is invoked only if it is enabled.         *)
C5_EnabledSetInvoked ==
    [][(RenderCalled /\ \E r \in enabledNow : Registered(r))
        => \A r \in Renderer :
              (Invocations(tasks', r) > 0) <=> (Registered(r) /\ r \in enabledNow)]_vars

C5_Witness ==
    /\ last.op = "render"
    /\ defaultRenderer \notin enabledNow
    /\ Invocations(tasks, defaultRenderer) = 0
    /\ \E i \in DOMAIN tasks : tasks[i].gen.name = "markdown"
    /\ HtmlRenderer \notin enabledNow /\ Serializer \notin enabledNow

C9_LookupReturnsEntryOrUndefined ==
    [][\A k \in RendererName :
        (last'.op = "getRenderer" /\ last'.arg = [name |-> k])
        => /\ \/ \E i \in DOMAIN renderers :
                    /\ renderers[i].key = k
                    /\ last'.outcome = [returned |-> renderers[i].value]
              \/ /\ \A i \in DOMAIN renderers : renderers[i].key # k
                 /\ last'.outcome = [returned |-> undefined]
           /\ renderers' = renderers
           /\ defaultRenderer' = defaultRenderer]_vars

C9_Witness ==
    /\ last.op = "getRenderer"
    /\ last.outcome = [returned |-> undefined]
    /\ Len(renderers) = 3

(* C10 as stated: no message is logged while a launched renderer is still  *)
(* running.                                                                *)
C10_LoggedOnlyAfterAllSettled ==
    logged # <<>> => \A i \in DOMAIN tasks : tasks[i].inner # "pending"

(* C10 as amended: a message is logged for a renderer only once that       *)
(* renderer's own task has rejected, with its error's message, and every   *)
(* rejected task's message has been logged when render returns; other      *)
(* launched renderers may still be running when a message is logged.       *)
C10_LoggedAfterOwnRejection ==
    /\ \A k \in DOMAIN logged :
          \E i \in DOMAIN tasks :
              /\ tasks[i].inner = "rejected"
              /\ logged[k] = Error(tasks[i].gen).message
    /\ pc = "returned"
         => \A i \in DOMAIN tasks :
               tasks[i].inner = "rejected"
                 => LogEntries(tasks[i].gen) # {}

C10_Witness ==
    /\ logged # <<>>
    /\ \E i \in DOMAIN tasks : tasks[i].inner = "pending"

AllSettled == \A i \in DOMAIN tasks : tasks[i].inner # "pending"

C13_SetDefaultReplacesFallback ==
    [][/\ \A r \in Renderer :
            (/\ last'.op = "setDefault"
             /\ last'.arg = [renderer |-> r]
             /\ \E i \in DOMAIN renderers :
                   renderers[i].key = r.name /\ renderers[i].value = r)
            => /\ last'.outcome = [returned |-> undefined]
               /\ defaultRenderer' = r
               /\ renderers' = renderers
       /\ (/\ RenderCalled
           /\ last.op = "setDefault"
           /\ last.outcome = [returned |-> undefined]
           /\ ~\E r \in enabledNow : Registered(r))
            => Launched(tasks') = <<last.arg.renderer>>]_vars

C13_Witness ==
    /\ last.op = "render"
    /\ defaultRenderer.name = "markdown"
    /\ Launched(tasks) = <<defaultRenderer>>
    /\ HtmlRenderer \notin enabledNow
    /\ defaultRenderer \notin enabledNow

(* C14: a render called after an earlier pass has returned launches the    *)
(* registered renderers that are enabled at this call, or the default      *)
(* renderer if none is, whatever the earlier call launched.                *)
C14_EligibilityRecomputed ==
    [][(pc = "returned" /\ pc' = "awaiting")
        => LET eligible == {r \in Renderer : Registered(r) /\ r \in enabledNow}
           IN  {tasks'[i].gen : i \in DOMAIN tasks'}
                  = IF eligible # {} THEN eligible ELSE {defaultRenderer}]_vars

C14_Witness ==
    /\ last.op = "render"
    /\ Len(last.previous) = 2
    /\ Len(tasks) = 1
    /\ \A i \in DOMAIN tasks, j \in DOMAIN last.previous : tasks[i].gen # last.previous[j]
    /\ \A i \in DOMAIN tasks : tasks[i].gen \in enabledNow

C17_RenderReadOnly ==
    [][/\ last'.op \in {"render", "settle", "catch", "await"}
            => renderers' = renderers /\ defaultRenderer' = defaultRenderer
       /\ (renderers' # renderers \/ defaultRenderer' # defaultRenderer)
            => /\ last'.op \in {"addRenderer", "setDefault"}
               /\ last'.outcome = [returned |-> undefined]]_vars

C17_Witness ==
    /\ pc = "returned"
    /\ last.op = "await"
    /\ Len(renderers) = 3
    /\ defaultRenderer.name = "markdown"
    /\ \E i \in DOMAIN tasks : tasks[i].inner = "rejected"

(* C18: in a render pass no renderer has its render operation invoked more *)
(* than once; a default renderer that is itself enabled is invoked once.   *)
C18_InvokedAtMostOnce ==
    \A r \in Renderer : Invocations(tasks, r) <= 1

C18_Witness ==
    /\ last.op = "render"
    /\ defaultRenderer \in enabledNow
    /\ Invocations(tasks, defaultRenderer) = 1
    /\ Len(tasks) = 3

(* C19: every entry of renderers is stored under its renderer's own name,  *)
(* no two entries have the same key, and an entry, once there, stays as it *)
(* is through every later step.                                            *)
C19_BindingsPermanent ==
    [][/\ \A i \in DOMAIN renderers' : renderers'[i].key = renderers'[i].value.name
       /\ \A i, j \in DOMAIN renderers' :
             renderers'[i].key = renderers'[j].key => i = j
       /\ \A i \in DOMAIN renderers :
             \E j \in DOMAIN renderers' : renderers'[j] = renderers[i]]_vars

C19_Witness ==
    /\ Len(renderers) = 3
    /\ last.op = "setDefault"
    /\ last.outcome = [threw |-> "AssertionError"]
    /\ last.arg.renderer.name = "markdown"
    /\ pc = "returned"

====
